---- MODULE Spec2Model ----
(***************************************************************************)
(* Newton-Raphson calculator (Araryarch/komnum).                           *)
(*                                                                         *)
(* The repository holds two versions of the page component Home:           *)
(*   src/src/app/page.tsx   full-precision recurrence, Ea and Et columns   *)
(*   src/unnamed/part_000   every step rounded to 2 decimals, one Error    *)
(*                          column, no true root                           *)
(* Each is modelled as its own specification over the same state shape:    *)
(* Spec and SpecRun (page.tsx) and SpecPart000 (part_000).  The variable   *)
(* run keeps the closure reads and the locals of the last call, and        *)
(* invocations the frames of calls in progress in SpecInterleaved, where   *)
(* a call is taken one pass of its loop at a time.                         *)
(*                                                                         *)
(* A JavaScript number is modelled as a fixed-point value: a finite value  *)
(* is an integer count of 1/Scale, every arithmetic result is rounded to   *)
(* the nearest representable value (ties away from zero), a result beyond  *)
(* MaxMag overflows to +/-Infinity as a double does beyond MAX_VALUE, and  *)
(* NaN and the infinities follow the IEEE-754 rules.  Scale is finer than  *)
(* the two decimals of toFixed(2), so a full-precision value and its       *)
(* 2-decimal rounding are different numbers.  The sign of zero is not      *)
(* modelled: a division of a non-zero value by zero takes the sign of the  *)
(* numerator.                                                              *)
(***************************************************************************)
EXTENDS Integers, Sequences, FiniteSets, TLC

VARIABLES equation, initialGuess, iterations, method, results, loading,
          error, trueRoot, run, invocations

vars == <<equation, initialGuess, iterations, method, results, loading,
          error, trueRoot, run, invocations>>

----------------------------------------------------------------------------
(* Bounds of the model *)

\* units per 1: the precision of a modelled number
Scale == 1000
\* largest finite magnitude (in whole units of 1) of a modelled number
MaxMag == 100000
\* largest iteration count the number input is given
MaxIter == 3
\* largest whole number the text inputs are given
MaxGuess == 3

----------------------------------------------------------------------------
(* JavaScript numbers *)

Fin(n) == [k |-> "fin", v |-> n]
NaN == [k |-> "nan", v |-> 0]
Infinity == [k |-> "inf", v |-> 1]
NegInfinity == [k |-> "inf", v |-> -1]
Inf(s) == IF s < 0 THEN NegInfinity ELSE Infinity

MaxUnits == MaxMag * Scale

\* a whole number n as a modelled number
Num(n) == Fin(n * Scale)

IsFinite(a) == a.k = "fin"
IsNaN(a) == a.k = "nan"

AbsInt(n) == IF n < 0 THEN -n ELSE n
Sgn(n) == IF n < 0 THEN -1 ELSE IF n > 0 THEN 1 ELSE 0
MinInt(a, b) == IF a < b THEN a ELSE b

\* a finite result, or the infinity it overflows to
Norm(n) == IF n > MaxUnits THEN Infinity
           ELSE IF n < -MaxUnits THEN NegInfinity
           ELSE Fin(n)

\* <<min(floor(a*s/b), MaxUnits + 1), (a*s) mod b>> for 0 <= a <= MaxUnits,
\* s >= 0 and 0 < b <= MaxUnits, computed digit by digit (base 8) so that no
\* intermediate value leaves 32 bits
RECURSIVE MulDivSat(_, _, _)
MulDivSat(a, s, b) ==
  IF s = 0 THEN <<0, 0>>
  ELSE LET h == MulDivSat(a, s \div 8, b)
           t == 8 * h[2] + a * (s % 8)
       IN  <<MinInt(8 * h[1] + (t \div b), MaxUnits + 1), t % b>>

\* round(a*s/b) to nearest, ties up, saturated at MaxUnits + 1
RoundMulDiv(a, s, b) ==
  LET qm == MulDivSat(a, s, b)
  IN  MinInt(qm[1] + (IF 2 * qm[2] >= b THEN 1 ELSE 0), MaxUnits + 1)

\* round(a*b/Scale) to nearest, ties up, saturated at MaxUnits + 1, for
\* 0 <= a, b <= MaxUnits: the product by whole and fractional parts
RoundMul(a, b) ==
  LET a1 == a \div Scale
      a0 == a % Scale
      b1 == b \div Scale
      b0 == b % Scale
  IN  IF a1 > 0 /\ b1 > (MaxMag + 1) \div a1 THEN MaxUnits + 1
      ELSE MinInt(a1 * b1 * Scale + a1 * b0 + a0 * b1
                    + (2 * a0 * b0 + Scale) \div (2 * Scale),
                  MaxUnits + 1)

\* unary minus
Neg(a) == IF a.k = "nan" THEN NaN ELSE [k |-> a.k, v |-> -a.v]

\* Math.abs
Abs(a) == IF a.k = "nan" THEN NaN ELSE [k |-> a.k, v |-> AbsInt(a.v)]

\* a + b
Add(a, b) ==
  IF a.k = "nan" \/ b.k = "nan" THEN NaN
  ELSE IF a.k = "inf" /\ b.k = "inf" THEN (IF a.v = b.v THEN a ELSE NaN)
  ELSE IF a.k = "inf" THEN a
  ELSE IF b.k = "inf" THEN b
  ELSE Norm(a.v + b.v)

\* a - b
Sub(a, b) == Add(a, Neg(b))

\* a * b
Mul(a, b) ==
  IF a.k = "nan" \/ b.k = "nan" THEN NaN
  ELSE IF a.k = "inf" \/ b.k = "inf"
       THEN (IF a.v = 0 \/ b.v = 0 THEN NaN ELSE Inf(Sgn(a.v) * Sgn(b.v)))
  ELSE Norm(Sgn(a.v) * Sgn(b.v) * RoundMul(AbsInt(a.v), AbsInt(b.v)))

\* a / b
Div(a, b) ==
  IF a.k = "nan" \/ b.k = "nan" THEN NaN
  ELSE IF a.k = "inf" /\ b.k = "inf" THEN NaN
  ELSE IF a.k = "inf" THEN Inf(a.v * (IF b.v < 0 THEN -1 ELSE 1))
  ELSE IF b.k = "inf" THEN Fin(0)
  ELSE IF b.v = 0 THEN (IF a.v = 0 THEN NaN ELSE Inf(a.v))
  ELSE Norm(Sgn(a.v) * Sgn(b.v) * RoundMulDiv(AbsInt(a.v), Scale, AbsInt(b.v)))

\* a < b
Less(a, b) ==
  IF a.k = "nan" \/ b.k = "nan" THEN FALSE
  ELSE IF a.k = "inf" THEN a.v < 0 /\ ~(b.k = "inf" /\ b.v < 0)
  ELSE IF b.k = "inf" THEN b.v > 0
  ELSE a.v < b.v

\* Math.pow(a, 2)
Pow2(a) == Mul(a, a)

\* a ^ 3
Pow3(a) == Mul(a, Mul(a, a))

\* largest r in lo..hi whose rounded square is at most n (lo is one)
RECURSIVE SqrtSearch(_, _, _)
SqrtSearch(n, lo, hi) ==
  IF lo >= hi THEN lo
  ELSE LET mid == (lo + hi + 1) \div 2
           sq == RoundMul(mid, mid)
       IN  IF sq <= n
           THEN SqrtSearch(n, mid, hi)
           ELSE SqrtSearch(n, lo, mid - 1)

\* the square root of a (NaN for a negative a)
Sqrt(a) ==
  IF a.k = "nan" \/ a.v < 0 THEN NaN
  ELSE IF a.k = "inf" THEN a
  ELSE Fin(SqrtSearch(a.v, 0, MinInt(a.v + Scale, MaxUnits)))

----------------------------------------------------------------------------
(* Number.prototype.toFixed(2), parseFloat and parseInt *)

\* two decimal digits of 0..99
TwoDigits(n) == ToString(n \div 10) \o ToString(n % 10)

\* a.toFixed(2): the decimal text of a rounded to 2 decimals
ToFixed(a) ==
  IF a.k = "nan" THEN "NaN"
  ELSE IF a.k = "inf" THEN (IF a.v < 0 THEN "-Infinity" ELSE "Infinity")
  ELSE LET cents == RoundMulDiv(AbsInt(a.v), 100, Scale)
       IN  (IF a.v < 0 THEN "-" ELSE "") \o ToString(cents \div 100)
             \o "." \o TwoDigits(cents % 100)

\* parseFloat(a.toFixed(2)): the number the 2-decimal text of a denotes
ParseFloatFixed(a) ==
  IF a.k = "fin"
  THEN Fin(Sgn(a.v) * RoundMulDiv(RoundMulDiv(AbsInt(a.v), 100, Scale), Scale, 100))
  ELSE a

\* the whole numbers whose decimal text the input fields are given
Digits == -1 .. MaxGuess

\* parseFloat(text) of the text of an input field
ParseFloat(text) ==
  IF \E n \in Digits : ToString(n) = text
  THEN Num(CHOOSE n \in Digits : ToString(n) = text)
  ELSE NaN

\* parseInt(text) of the text of the number input
ParseInt(text) ==
  IF \E n \in 0 .. MaxIter : ToString(n) = text
  THEN Num(CHOOSE n \in 0 .. MaxIter : ToString(n) = text)
  ELSE NaN

----------------------------------------------------------------------------
(* The expression evaluator (mathjs evaluate and derivative), for the       *)
(* expressions the input field is given.  A call returns a value or throws. *)

Returns(a) == [ok |-> TRUE, val |-> a, msg |-> ""]
Throws(m) == [ok |-> FALSE, val |-> NaN, msg |-> m]

Cubic == "12*x^3 - 30*x^2 - 84*x + 48"
Quadratic == "x^2 - 4"
Identity == "x"
Root == "nthRoot(x, 2)"
Malformed == "x^"

Equations == {Cubic, Quadratic, Identity, Root, Malformed}

SyntaxError == "Unexpected end of expression (char 3)"
RootError == "Root must be odd when a is negative."

\* derivative(expr, "x").toString(): the text of the derivative, or a throw
derivative(expr) ==
  CASE expr = Cubic -> [ok |-> TRUE, expr |-> "36 * x ^ 2 - 60 * x - 84", msg |-> ""]
    [] expr = "36 * x ^ 2 - 60 * x - 84" -> [ok |-> TRUE, expr |-> "72 * x - 60", msg |-> ""]
    [] expr = Quadratic -> [ok |-> TRUE, expr |-> "2 * x", msg |-> ""]
    [] expr = "2 * x" -> [ok |-> TRUE, expr |-> "2", msg |-> ""]
    [] expr = Identity -> [ok |-> TRUE, expr |-> "1", msg |-> ""]
    [] expr = "1" -> [ok |-> TRUE, expr |-> "0", msg |-> ""]
    [] expr = Root -> [ok |-> TRUE, expr |-> "1 / (2 * sqrt(x))", msg |-> ""]
    [] expr = "1 / (2 * sqrt(x))" -> [ok |-> TRUE, expr |-> "-1 / (4 * x * sqrt(x))", msg |-> ""]
    [] OTHER -> [ok |-> FALSE, expr |-> "", msg |-> SyntaxError]

\* evaluate(expr, { x }): the value of expr at x, or a throw
evaluate(expr, x) ==
  CASE expr = Cubic ->
         Returns(Add(Sub(Sub(Mul(Num(12), Pow3(x)), Mul(Num(30), Pow2(x))),
                         Mul(Num(84), x)), Num(48)))
    [] expr = "36 * x ^ 2 - 60 * x - 84" ->
         Returns(Sub(Sub(Mul(Num(36), Pow2(x)), Mul(Num(60), x)), Num(84)))
    [] expr = "72 * x - 60" -> Returns(Sub(Mul(Num(72), x), Num(60)))
    [] expr = Quadratic -> Returns(Sub(Pow2(x), Num(4)))
    [] expr = "2 * x" -> Returns(Mul(Num(2), x))
    [] expr = "2" -> Returns(Num(2))
    [] expr = Identity -> Returns(x)
    [] expr = "1" -> Returns(Num(1))
    [] expr = "0" -> Returns(Num(0))
    [] expr = Root ->
         IF Less(x, Num(0)) THEN Throws(RootError) ELSE Returns(Sqrt(x))
    [] expr = "1 / (2 * sqrt(x))" ->
         Returns(Div(Num(1), Mul(Num(2), Sqrt(x))))
    [] expr = "-1 / (4 * x * sqrt(x))" ->
         Returns(Div(Num(-1), Mul(Mul(Num(4), x), Sqrt(x))))
    [] OTHER -> Throws(SyntaxError)

\* f = (x) => evaluate(equation, { x })
f(eq, x) == evaluate(eq, x)

\* fPrime = (x) => evaluate(derivative(equation, "x").toString(), { x })
fPrime(eq, x) ==
  LET d == derivative(eq)
  IN  IF d.ok THEN evaluate(d.expr, x) ELSE Throws(d.msg)

\* fDoublePrime = (x) =>
\*   evaluate(derivative(derivative(equation, "x").toString(), "x").toString(), { x })
fDoublePrime(eq, x) ==
  LET d == derivative(eq)
      dd == IF d.ok THEN derivative(d.expr) ELSE d
  IN  IF dd.ok THEN evaluate(dd.expr, x) ELSE Throws(dd.msg)

----------------------------------------------------------------------------
(* calculateNewtonRaphson of src/src/app/page.tsx *)

StandardFormula == "x_{i+1} = x_i - \\frac{f(x_i)}{f'(x_i)}"
ModifiedFormula ==
  "x_{i+1} = x_i - \\frac{f(x_i) \\cdot f'(x_i)}{[f'(x_i)]^2 - f(x_i) \\cdot f''(x_i)}"

\* calculateError with the previous iterate as the denominator
calculateErrorOverPrevious(current, previous) ==
  Mul(Abs(Div(Sub(current, previous), previous)), Num(100))

\* calculateError = (current, previous) => Math.abs((current - previous) / current) * 100
calculateError(current, previous) ==
  Mul(Abs(Div(Sub(current, previous), current)), Num(100))

\* trueRootValue without the || 0 default
trueRootValueNoDefault(text) == ParseFloat(text)

\* trueRootValue = parseFloat(trueRoot) || 0
trueRootValue(text) ==
  LET p == ParseFloat(text)
  IN  IF IsNaN(p) \/ p = Num(0) THEN Num(0) ELSE p

\* et = Math.abs((trueRootValue - x1) / trueRootValue) * 100
TrueError(r, x1) == Mul(Abs(Div(Sub(r, x1), r)), Num(100))

\* the standard update on function values rounded to 2 decimals
StandardNextRounded(x0, fx, fpx) ==
  Sub(x0, Div(ParseFloatFixed(fx), ParseFloatFixed(fpx)))

\* x1 = x0 - fx / fpx
StandardNext(x0, fx, fpx) == Sub(x0, Div(fx, fpx))

\* numerator = fx * fpx; denominator = Math.pow(fpx, 2) - fx * fppx;
\* x1 = x0 - numerator / denominator
ModifiedNext(x0, fx, fpx, fppx) ==
  LET numerator == Mul(fx, fpx)
      denominator == Sub(Pow2(fpx), Mul(fx, fppx))
  IN  Sub(x0, Div(numerator, denominator))

\* the record pushed under the standard method
StandardRecord(i, x0, fx, fpx, x1, ea, et) ==
  [iteration |-> i + 1,
   x |-> ToFixed(x0),
   fx |-> ToFixed(fx),
   fpx |-> ToFixed(fpx),
   x_next |-> ToFixed(x1),
   error |-> ToFixed(ea) \o "%",
   et |-> ToFixed(et) \o "%",
   formula |-> StandardFormula]

\* the modified record with the label of the standard formula
ModifiedRecordStandardLabel(i, x0, fx, fpx, fppx, x1, ea, et) ==
  [iteration |-> i + 1,
   x |-> ToFixed(x0),
   fx |-> ToFixed(fx),
   fpx |-> ToFixed(fpx),
   fppx |-> ToFixed(fppx),
   x_next |-> ToFixed(x1),
   error |-> ToFixed(ea) \o "%",
   et |-> ToFixed(et) \o "%",
   formula |-> StandardFormula]

\* the record pushed under the modified method
ModifiedRecord(i, x0, fx, fpx, fppx, x1, ea, et) ==
  [iteration |-> i + 1,
   x |-> ToFixed(x0),
   fx |-> ToFixed(fx),
   fpx |-> ToFixed(fpx),
   fppx |-> ToFixed(fppx),
   x_next |-> ToFixed(x1),
   error |-> ToFixed(ea) \o "%",
   et |-> ToFixed(et) \o "%",
   formula |-> ModifiedFormula]

\* the assignment x0 = x1 left out: the iterate never advances
CarryNothing(x0, x1) == x0

\* x0 = x1: the iterate the next iteration starts from
Carry(x0, x1) == x1

\* the loop condition i < iterations
LoopCondition(i, n) == Less(Num(i), n)

\* what the catch block does with a throw at iteration L.i + 1: the locals as
\* they are when control leaves the try block
Abort(L, m) == [L EXCEPT !.thrown = TRUE, !.message = m]

\* the body of the loop once fx, fpx and fppx are evaluated
Body(c, L, fx, fpx, fppx) ==
  LET x1 == IF c.method = "standard"
            THEN StandardNext(L.x0, fx, fpx)
            ELSE ModifiedNext(L.x0, fx, fpx, fppx)
      et == TrueError(c.trueRootValue, x1)
      ea == calculateError(x1, L.x0)
      rec == IF c.method = "standard"
             THEN StandardRecord(L.i, L.x0, fx, fpx, x1, ea, et)
             ELSE ModifiedRecord(L.i, L.x0, fx, fpx, fppx, x1, ea, et)
  IN  [L EXCEPT !.i = L.i + 1,
                !.x0 = Carry(L.x0, x1),
                !.iterationResults = Append(L.iterationResults, rec),
                !.trace = Append(L.trace,
                                 [x0 |-> L.x0, fx |-> fx, fpx |-> fpx,
                                  fppx |-> fppx, x1 |-> x1, ea |-> ea, et |-> et])]

\* the calls one pass of the loop body makes at the iterate x, in order, up to
\* the first that throws: f(x0), fPrime(x0) with its derivative(...), and
\* fDoublePrime(x0) with its two derivative(...)
Calls(eq, x) ==
  <<"f">>
  \o (IF f(eq, x).ok THEN <<"fPrime", "derivative">> ELSE <<>>)
  \o (IF f(eq, x).ok /\ fPrime(eq, x).ok
      THEN <<"fDoublePrime", "derivative", "derivative">>
      ELSE <<>>)

\* one pass of the loop body at the iterate L.x0: the three evaluations, then
\* the update and the push, or the throw of the first evaluation that fails
Iteration(c, L) ==
  LET fx == f(c.equation, L.x0)
      fpx == fPrime(c.equation, L.x0)
      fppx == fDoublePrime(c.equation, L.x0)
      M == [L EXCEPT !.calls = Append(L.calls, Calls(c.equation, L.x0))]
  IN  IF ~fx.ok THEN Abort(M, fx.msg)
      ELSE IF ~fpx.ok THEN Abort(M, fpx.msg)
      ELSE IF ~fppx.ok THEN Abort(M, fppx.msg)
      ELSE Body(c, M, fx.val, fpx.val, fppx.val)

\* the loop with a convergence check: it is left once x1 == x0
RECURSIVE LoopUntilConverged(_, _)
LoopUntilConverged(c, L) ==
  IF ~LoopCondition(L.i, c.iterations) \/ L.thrown THEN L
  ELSE IF L.i > 0 /\ L.trace[L.i].x1 = L.trace[L.i].x0 THEN L
  ELSE LoopUntilConverged(c, Iteration(c, L))

\* the loop with a guard on the derivative: f'(x) == 0 throws
RECURSIVE LoopGuardingDivision(_, _)
LoopGuardingDivision(c, L) ==
  IF ~LoopCondition(L.i, c.iterations) \/ L.thrown THEN L
  ELSE IF fPrime(c.equation, L.x0).ok /\ fPrime(c.equation, L.x0).val = Num(0)
  THEN Abort(L, "Division by zero")
  ELSE LoopGuardingDivision(c, Iteration(c, L))

\* for (let i = 0; i < iterations; i++) { ... }: the locals when the loop is
\* left, by its condition or by a throw of f, fPrime or fDoublePrime
RECURSIVE Loop(_, _)
Loop(c, L) ==
  IF ~LoopCondition(L.i, c.iterations) \/ L.thrown THEN L
  ELSE Loop(c, Iteration(c, L))

\* the locals before the loop
Locals(x0) ==
  [i |-> 0, x0 |-> x0, iterationResults |-> <<>>, trace |-> <<>>,
   calls |-> <<>>, thrown |-> FALSE, message |-> ""]

\* what the closure of one call reads: the state of the render it belongs to
Config ==
  [equation |-> equation,
   x0 |-> ParseFloat(initialGuess),
   iterations |-> iterations,
   method |-> method,
   trueRoot |-> trueRoot,
   trueRootValue |-> trueRootValue(trueRoot)]

\* how a call ended: what the catch block was or was not entered for
Outcome(r) ==
  IF ~r.called THEN "none"
  ELSE IF r.locals.thrown THEN "failed" ELSE "succeeded"

\* setResults(iterationResults) reached also after a throw
PublishPartial(L, old) == L.iterationResults

\* setResults(iterationResults), reached only when nothing threw
Publish(L, old) == IF L.thrown THEN old ELSE L.iterationResults

\* the error without the setError("") of line 44: a success keeps the old text
ErrorTextKept(L) == IF L.thrown THEN "Error: " \o L.message ELSE error

\* setError(`Error: ${err.message}`) in the catch block, setError("") otherwise
ErrorText(L) == IF L.thrown THEN "Error: " \o L.message ELSE ""

\* a call whose iterate outlives the call: it resumes from the last x0
calculateNewtonRaphsonResuming ==
  \E c \in {Config} :
    \E L \in {Loop(c, Locals(IF run.called THEN run.locals.x0 ELSE c.x0))} :
      /\ loading = FALSE
      /\ loading' = FALSE
      /\ error' = ErrorText(L)
      /\ results' = Publish(L, results)
      /\ run' = [called |-> TRUE, config |-> c, locals |-> L,
                 previous |-> Outcome(run)]
      /\ UNCHANGED <<equation, initialGuess, iterations, method, trueRoot,
                     invocations>>

\* a call that writes the parsed guess back into the form
calculateNewtonRaphsonNormalising ==
  \E c \in {Config} : \E L \in {Loop(c, Locals(c.x0))} :
      /\ loading = FALSE
      /\ loading' = FALSE
      /\ error' = ErrorText(L)
      /\ results' = Publish(L, results)
      /\ run' = [called |-> TRUE, config |-> c, locals |-> L,
                 previous |-> Outcome(run)]
      /\ initialGuess' = ToFixed(c.x0)
      /\ UNCHANGED <<equation, iterations, method, trueRoot, invocations>>

\* one click on Calculate
calculateNewtonRaphson ==
  \E c \in {Config} : \E L \in {Loop(c, Locals(c.x0))} :
      /\ loading = FALSE
      /\ loading' = FALSE
      /\ error' = ErrorText(L)
      /\ results' = Publish(L, results)
      /\ run' = [called |-> TRUE, config |-> c, locals |-> L,
                 previous |-> Outcome(run)]
      /\ UNCHANGED <<equation, initialGuess, iterations, method, trueRoot,
                     invocations>>

----------------------------------------------------------------------------
(* calculateNewtonRaphson of src/unnamed/part_000: the function values shown *)
(* and the next iterate are rounded to 2 decimals at every step              *)

\* x1 = x0 - f(x0) / fPrime(x0); x1 = parseFloat(x1.toFixed(2))
StandardNext000(x0, fx, fpx) == ParseFloatFixed(Sub(x0, Div(fx, fpx)))

\* numerator = f(x0) * fPrime(x0);
\* denominator = Math.pow(fPrime(x0), 2) - f(x0) * fDoublePrime(x0);
\* x1 = x0 - numerator / denominator; x1 = parseFloat(x1.toFixed(2))
ModifiedNext000(x0, fx, fpx, fppx) ==
  LET numerator == Mul(fx, fpx)
      denominator == Sub(Pow2(fpx), Mul(fx, fppx))
  IN  ParseFloatFixed(Sub(x0, Div(numerator, denominator)))

\* the record pushed under the standard method
StandardRecord000(i, x0, fx, fpx, x1, et) ==
  [iteration |-> i + 1,
   x |-> ToFixed(x0),
   fx |-> ToFixed(fx),
   fpx |-> ToFixed(fpx),
   x_next |-> ToFixed(x1),
   error |-> ToFixed(et) \o "%",
   formula |-> StandardFormula]

\* the record pushed under the modified method
ModifiedRecord000(i, x0, fx, fpx, fppx, x1, et) ==
  [iteration |-> i + 1,
   x |-> ToFixed(x0),
   fx |-> ToFixed(fx),
   fpx |-> ToFixed(fpx),
   fppx |-> ToFixed(fppx),
   x_next |-> ToFixed(x1),
   error |-> ToFixed(et) \o "%",
   formula |-> ModifiedFormula]

\* the body of the loop once f(x0), fPrime(x0) and fDoublePrime(x0) are
\* evaluated: fx, fpx and fppx are their roundings, the update re-evaluates them
Body000(c, L, fx0, fpx0, fppx0) ==
  LET fx == ParseFloatFixed(fx0)
      fpx == ParseFloatFixed(fpx0)
      fppx == ParseFloatFixed(fppx0)
      x1 == IF c.method = "standard"
            THEN StandardNext000(L.x0, fx0, fpx0)
            ELSE ModifiedNext000(L.x0, fx0, fpx0, fppx0)
      et == calculateError(x1, L.x0)
      rec == IF c.method = "standard"
             THEN StandardRecord000(L.i, L.x0, fx, fpx, x1, et)
             ELSE ModifiedRecord000(L.i, L.x0, fx, fpx, fppx, x1, et)
  IN  [L EXCEPT !.i = L.i + 1,
                !.x0 = x1,
                !.iterationResults = Append(L.iterationResults, rec),
                !.trace = Append(L.trace,
                                 [x0 |-> L.x0, fx |-> fx, fpx |-> fpx,
                                  fppx |-> fppx, x1 |-> x1, ea |-> et])]

\* the calls one pass of the loop body of part_000 makes at x: the three
\* evaluations that are rounded for the record, then those of the update
Calls000(eq, x, m) ==
  Calls(eq, x)
  \o (IF f(eq, x).ok /\ fPrime(eq, x).ok /\ fDoublePrime(eq, x).ok
      THEN IF m = "standard"
           THEN <<"f", "fPrime", "derivative">>
           ELSE <<"f", "fPrime", "derivative", "fPrime", "derivative", "f",
                  "fDoublePrime", "derivative", "derivative">>
      ELSE <<>>)

\* one pass of the loop body of part_000 at the iterate L.x0
Iteration000(c, L) ==
  LET fx == f(c.equation, L.x0)
      fpx == fPrime(c.equation, L.x0)
      fppx == fDoublePrime(c.equation, L.x0)
      M == [L EXCEPT !.calls =
                       Append(L.calls, Calls000(c.equation, L.x0, c.method))]
  IN  IF ~fx.ok THEN Abort(M, fx.msg)
      ELSE IF ~fpx.ok THEN Abort(M, fpx.msg)
      ELSE IF ~fppx.ok THEN Abort(M, fppx.msg)
      ELSE Body000(c, M, fx.val, fpx.val, fppx.val)

\* for (let i = 0; i < iterations; i++) { ... }
RECURSIVE Loop000(_, _)
Loop000(c, L) ==
  IF ~LoopCondition(L.i, c.iterations) \/ L.thrown THEN L
  ELSE Loop000(c, Iteration000(c, L))

\* what the closure of one call reads (part_000 has no true root)
Config000 ==
  [equation |-> equation,
   x0 |-> ParseFloat(initialGuess),
   iterations |-> iterations,
   method |-> method]

\* one click on Calculate
calculateNewtonRaphson000 ==
  \E c \in {Config000} : \E L \in {Loop000(c, Locals(c.x0))} :
      /\ loading = FALSE
      /\ loading' = FALSE
      /\ error' = ErrorText(L)
      /\ results' = Publish(L, results)
      /\ run' = [called |-> TRUE, config |-> c, locals |-> L,
                 previous |-> Outcome(run)]
      /\ UNCHANGED <<equation, initialGuess, iterations, method, trueRoot,
                     invocations>>

----------------------------------------------------------------------------
(* The input handlers of Home and the example gallery *)

Methods == {"standard", "modified"}

\* the texts the initial-guess field is given
GuessTexts == {ToString(n) : n \in Digits} \cup {"", "abc"}
\* the texts the true-root field is given
TrueRootTexts == {"", "abc", "0", "2", "-1"}
\* the texts the number input is given
IterationTexts == {ToString(n) : n \in 0 .. MaxIter} \cup {""}

\* the inputs of one session
SessionEquations == {Quadratic, Root, Malformed}
SessionGuesses == {"3"}
SessionIterations == {"", "2"}
SessionTrueRoots == {"2"}

\* the examples whose expression the evaluator model covers (Example 3,
\* exp(x) - 3*x, is left out: exp is not modelled)
examples ==
  {[title |-> "Example 1", equation |-> Cubic, initialGuess |-> "-1",
    method |-> "modified"],
   [title |-> "Example 2", equation |-> Quadratic, initialGuess |-> "3",
    method |-> "standard"]}

\* onChange of the function field
setEquation(text) ==
  /\ equation' = text
  /\ UNCHANGED <<initialGuess, iterations, method, results, loading, error,
                 trueRoot, run, invocations>>

\* onChange of the initial-guess field
setInitialGuess(text) ==
  /\ initialGuess' = text
  /\ UNCHANGED <<equation, iterations, method, results, loading, error,
                 trueRoot, run, invocations>>

\* onChange of the number input: setIterations(parseInt(e.target.value))
setIterations(text) ==
  /\ iterations' = ParseInt(text)
  /\ UNCHANGED <<equation, initialGuess, method, results, loading, error,
                 trueRoot, run, invocations>>

\* onChange of the method select
setMethod(m) ==
  /\ method' = m
  /\ UNCHANGED <<equation, initialGuess, iterations, results, loading, error,
                 trueRoot, run, invocations>>

\* onChange of the true-root field
setTrueRoot(text) ==
  /\ trueRoot' = text
  /\ UNCHANGED <<equation, initialGuess, iterations, method, results, loading,
                 error, run, invocations>>

\* a click on an example card
loadExample(example) ==
  /\ equation' = example.equation
  /\ initialGuess' = example.initialGuess
  /\ method' = example.method
  /\ UNCHANGED <<iterations, results, loading, error, trueRoot, run,
                 invocations>>

----------------------------------------------------------------------------
(* Specifications *)

NoRun ==
  [called |-> FALSE,
   config |-> [equation |-> "", x0 |-> NaN, iterations |-> NaN,
               method |-> "", trueRoot |-> "", trueRootValue |-> NaN],
   locals |-> Locals(NaN),
   previous |-> "none"]

\* the calls the interleaved specification follows
Invocations == {1, 2}

\* no call in progress
NoInvocations ==
  [p \in Invocations |->
     [pc |-> "idle", config |-> NoRun.config, locals |-> NoRun.locals]]

\* the state of Home after its first render
Init ==
  /\ equation = Cubic
  /\ initialGuess = "-1"
  /\ iterations = Num(3)
  /\ method = "modified"
  /\ results = <<>>
  /\ loading = FALSE
  /\ error = ""
  /\ trueRoot = ""
  /\ run = NoRun
  /\ invocations = NoInvocations

\* the form as the input handlers can fill it before the first calculation
InitRun ==
  /\ equation \in Equations
  /\ initialGuess \in GuessTexts
  /\ iterations \in {ParseInt(t) : t \in IterationTexts} \cup {Num(3)}
  /\ method \in Methods
  /\ trueRoot \in TrueRootTexts
  /\ results = <<>>
  /\ loading = FALSE
  /\ error = ""
  /\ run = NoRun
  /\ invocations = NoInvocations

\* the calculations of page.tsx from every form
NextRun == calculateNewtonRaphson

SpecRun == InitRun /\ [][NextRun]_vars

\* the form of part_000 as its input handlers can fill it
InitRun000 ==
  /\ InitRun
  /\ trueRoot = ""

\* the calculations of part_000 from every form
NextRun000 == calculateNewtonRaphson000

SpecPart000 == InitRun000 /\ [][NextRun000]_vars

\* one session of page.tsx: the handlers in any order
Next ==
  \/ \E text \in SessionEquations : setEquation(text)
  \/ \E text \in SessionGuesses : setInitialGuess(text)
  \/ \E text \in SessionIterations : setIterations(text)
  \/ \E m \in Methods : setMethod(m)
  \/ \E text \in SessionTrueRoots : setTrueRoot(text)
  \/ \E example \in examples : loadExample(example)
  \/ calculateNewtonRaphson

Spec == Init /\ [][Next]_vars

\* calculateNewtonRaphson taken apart into its start, the passes of its loop
\* and its end, for two calls in progress at once.  The function is
\* synchronous, so the page itself runs Call, every Pass and Return of one
\* call without another call in between; the behaviours below include these
\* and every other interleaving.

\* the start of a call (lines 42-64): setLoading(true), setError(""), the
\* closure reads and the locals x0 and iterationResults
Call(p) ==
  /\ invocations[p].pc = "idle"
  /\ invocations' = [invocations EXCEPT
                       ![p] = [pc |-> "loop", config |-> Config,
                               locals |-> Locals(Config.x0)]]
  /\ loading' = TRUE
  /\ error' = ""
  /\ UNCHANGED <<equation, initialGuess, iterations, method, results,
                 trueRoot, run>>

\* a pass of the loop with x0 declared outside the function: every call in
\* progress sees the iterate this pass leaves
PassSharedIterate(p) ==
  /\ invocations[p].pc = "loop"
  /\ ~invocations[p].locals.thrown
  /\ LoopCondition(invocations[p].locals.i, invocations[p].config.iterations)
  /\ \E L \in {Iteration(invocations[p].config, invocations[p].locals)} :
       invocations' =
         [q \in Invocations |->
            IF q = p THEN [invocations[q] EXCEPT !.locals = L]
            ELSE IF invocations[q].pc = "loop"
                 THEN [invocations[q] EXCEPT !.locals.x0 = L.x0]
                 ELSE invocations[q]]
  /\ UNCHANGED <<equation, initialGuess, iterations, method, results, loading,
                 error, trueRoot, run>>

\* one pass of the loop of call p (lines 66-115), on p's own locals
Pass(p) ==
  /\ invocations[p].pc = "loop"
  /\ ~invocations[p].locals.thrown
  /\ LoopCondition(invocations[p].locals.i, invocations[p].config.iterations)
  /\ \E L \in {Iteration(invocations[p].config, invocations[p].locals)} :
       invocations' = [invocations EXCEPT ![p].locals = L]
  /\ UNCHANGED <<equation, initialGuess, iterations, method, results, loading,
                 error, trueRoot, run>>

\* the end of call p (lines 117-121): setResults(iterationResults) after the
\* loop, setError in the catch block, setLoading(false)
Return(p) ==
  /\ invocations[p].pc = "loop"
  /\ \/ invocations[p].locals.thrown
     \/ ~LoopCondition(invocations[p].locals.i, invocations[p].config.iterations)
  /\ results' = Publish(invocations[p].locals, results)
  /\ error' = (IF invocations[p].locals.thrown
               THEN ErrorText(invocations[p].locals)
               ELSE error)
  /\ loading' = FALSE
  /\ invocations' = [invocations EXCEPT ![p].pc = "done"]
  /\ UNCHANGED <<equation, initialGuess, iterations, method, trueRoot, run>>

\* the guesses typed between two calls
InterleavedGuesses == {"3", "-1"}

\* the form before the first of the two calls
InitInterleaved ==
  /\ equation \in {Quadratic, Root}
  /\ initialGuess \in InterleavedGuesses
  /\ iterations = Num(2)
  /\ method \in Methods
  /\ results = <<>>
  /\ loading = FALSE
  /\ error = ""
  /\ trueRoot = ""
  /\ run = NoRun
  /\ invocations = NoInvocations

NextInterleaved ==
  \/ \E p \in Invocations : Call(p)
  \/ \E p \in Invocations : Pass(p)
  \/ \E p \in Invocations : Return(p)
  \/ \E m \in Methods : setMethod(m)
  \/ \E text \in InterleavedGuesses : setInitialGuess(text)

SpecInterleaved == InitInterleaved /\ [][NextInterleaved]_vars

----------------------------------------------------------------------------
(* Properties *)

\* the last call's locals
Trace == run.locals.trace
Records == run.locals.iterationResults
Succeeded == run.called /\ ~run.locals.thrown

\* the iteration count N of the last call, when it is a whole number >= 1
HasCount == IsFinite(run.config.iterations) /\ run.config.iterations.v >= Scale

\* the unrounded function values at an iterate
Fx(x) == f(run.config.equation, x).val
Fpx(x) == fPrime(run.config.equation, x).val
Fppx(x) == fDoublePrime(run.config.equation, x).val

\* C1: a run with iteration count N >= 1 whose evaluations all succeed
\* publishes exactly N records, numbered 1, 2, ..., N in order; it does not
\* stop early when an iterate has converged.
C1_ExactlyNRecords ==
  (Succeeded /\ HasCount) =>
    /\ results = Records
    /\ Len(results) * Scale = run.config.iterations.v
    /\ \A j \in 1 .. Len(results) : results[j].iteration = j

\* a successful 3-iteration run that had converged (x_next == x, f(x) == 0)
\* at its second iteration and still went on
C1_Witness ==
  /\ Succeeded
  /\ Len(results) = 3
  /\ Trace[2].x1 = Trace[2].x0
  /\ Trace[2].fx = Num(0)

\* C2: in a successful run the records are chained: the first record's x is
\* the initial guess, the x of every later record is the x_next of the record
\* before it, as displayed and in full precision.
C2_Chained ==
  Succeeded =>
    /\ Len(Trace) = Len(results)
    /\ Len(results) >= 1 =>
         /\ Trace[1].x0 = run.config.x0
         /\ results[1].x = ToFixed(run.config.x0)
    /\ \A j \in 2 .. Len(results) :
         /\ Trace[j].x0 = Trace[j - 1].x1
         /\ results[j].x = results[j - 1].x_next

\* a successful run whose second record starts from a moved iterate
C2_Witness ==
  /\ Succeeded
  /\ Len(results) >= 2
  /\ results[2].x # results[1].x
  /\ IsFinite(Trace[2].x0)

\* C3: under the standard method every iteration computes
\* x_next = x - f(x)/f'(x) from the unrounded iterate and the unrounded values
\* of f and f' at it.
C3_StandardLaw ==
  (run.called /\ run.config.method = "standard") =>
    \A j \in 1 .. Len(Trace) :
      LET e == Trace[j]
      IN  /\ e.x0 = (IF j = 1 THEN run.config.x0 ELSE Trace[j - 1].x1)
          /\ e.x1 = Sub(e.x0, Div(Fx(e.x0), Fpx(e.x0)))
          /\ Records[j].x_next = ToFixed(e.x1)

\* a standard iteration where rounding x, f(x) or f'(x) first would give
\* another x_next
C3_Witness ==
  /\ run.called
  /\ run.config.method = "standard"
  /\ \E j \in 1 .. Len(Trace) :
       LET e == Trace[j]
       IN  /\ IsFinite(e.x1)
           /\ e.x1 # Sub(e.x0, Div(ParseFloatFixed(e.fx), ParseFloatFixed(e.fpx)))
           /\ e.x1 # ParseFloatFixed(e.x1)

\* the modified update on unrounded values, written out
ModifiedUpdate(x) ==
  Sub(x, Div(Mul(Fx(x), Fpx(x)),
             Sub(Mul(Fpx(x), Fpx(x)), Mul(Fx(x), Fppx(x)))))

\* the standard update on unrounded values, written out
StandardUpdate(x) == Sub(x, Div(Fx(x), Fpx(x)))

\* C4: under the modified method every iteration computes
\* x_next = x - (f(x)*f'(x)) / (f'(x)^2 - f(x)*f''(x)) from the unrounded
\* iterate and the unrounded function values.
C4_ModifiedLaw ==
  (run.called /\ run.config.method = "modified") =>
    \A j \in 1 .. Len(Trace) :
      LET e == Trace[j]
      IN  /\ e.x0 = (IF j = 1 THEN run.config.x0 ELSE Trace[j - 1].x1)
          /\ e.x1 = ModifiedUpdate(e.x0)
          /\ Records[j].x_next = ToFixed(e.x1)

\* C5: rounding to 2 decimals is display-only: the iterate an iteration
\* starts from is the full-precision result of the update formula of the
\* iteration before, on unrounded function values, never its rounding.
C5_FullPrecisionCarry ==
  run.called =>
    \A j \in 1 .. Len(Trace) - 1 :
      Trace[j + 1].x0 = (IF run.config.method = "standard"
                         THEN StandardUpdate(Trace[j].x0)
                         ELSE ModifiedUpdate(Trace[j].x0))

\* C6: in every record, under both methods, Ea = |x_next - x| / |x_next| * 100
\* on unrounded values, rounded to 2 decimals only in the record.
C6_EaLaw ==
  run.called =>
    \A j \in 1 .. Len(Trace) :
      LET e == Trace[j]
      IN  /\ e.ea = Mul(Div(Abs(Sub(e.x1, e.x0)), Abs(e.x1)), Num(100))
          /\ Records[j].error = ToFixed(e.ea) \o "%"

\* a modified iteration with a finite non-zero Ea that the previous iterate
\* as the denominator would change
C6_Witness ==
  /\ run.called
  /\ run.config.method = "modified"
  /\ \E j \in 1 .. Len(Trace) :
       LET e == Trace[j]
       IN  /\ IsFinite(e.ea)
           /\ e.ea # Num(0)
           /\ e.ea # Mul(Div(Abs(Sub(e.x1, e.x0)), Abs(e.x0)), Num(100))

\* the true root as supplied: the text parses to a number
TrueRootSupplied == ~IsNaN(ParseFloat(run.config.trueRoot))
\* the reference value r: the supplied true root, 0 without one
Reference == IF TrueRootSupplied THEN ParseFloat(run.config.trueRoot) ELSE Num(0)

\* an evaluation of f, f' or f'' at x throws
EvaluatorThrows(eq, x) ==
  ~f(eq, x).ok \/ ~fPrime(eq, x).ok \/ ~fDoublePrime(eq, x).ok

\* the message of the first evaluation at x that throws
FirstThrow(eq, x) ==
  IF ~f(eq, x).ok THEN f(eq, x).msg
  ELSE IF ~fPrime(eq, x).ok THEN fPrime(eq, x).msg
  ELSE fDoublePrime(eq, x).msg

C8_AllOrNothing ==
  [][(run' # run /\ run'.locals.thrown) =>
       /\ EvaluatorThrows(equation, run'.locals.x0)
       /\ error' = "Error: " \o FirstThrow(equation, run'.locals.x0)
       /\ Len(run'.locals.iterationResults) = run'.locals.i
       /\ run'.locals.i * Scale < iterations.v
       /\ results' = results]_vars

\* a run that threw at its second iteration: its first record is computed
\* and the results still show the records of an earlier run
C8_Witness ==
  /\ run.called
  /\ run.locals.thrown
  /\ Len(Records) = 1
  /\ error = "Error: " \o RootError
  /\ Len(results) >= 2
  /\ \A j \in 1 .. Len(results) : results[j] # Records[1]

\* the update denominator of an iteration is zero
ZeroDenominator(e) ==
  IF run.config.method = "standard"
  THEN e.fpx = Num(0)
  ELSE Sub(Mul(e.fpx, e.fpx), Mul(e.fx, e.fppx)) = Num(0)

NonFiniteTexts == {"NaN", "Infinity", "-Infinity"}

\* C9: a numeric anomaly never aborts a run: a call throws only when an
\* evaluation throws; an iteration whose update denominator is zero still
\* pushes its record, with a non-finite x_next; a non-finite iterate is
\* carried into every later iteration; and a run without a throw has no
\* error and, for a count N >= 1, N records.
C9_AnomalyNeverAborts ==
  run.called =>
    /\ run.locals.thrown =>
         EvaluatorThrows(run.config.equation, run.locals.x0)
    /\ ~run.locals.thrown =>
         /\ error = ""
         /\ results = Records
         /\ HasCount => Len(Records) * Scale = run.config.iterations.v
    /\ Len(Records) = Len(Trace)
    /\ \A j \in 1 .. Len(Trace) :
         /\ (ZeroDenominator(Trace[j]) /\ IsFinite(Trace[j].x0)) =>
              /\ ~IsFinite(Trace[j].x1)
              /\ Records[j].x_next \in NonFiniteTexts
         /\ ~IsFinite(Trace[j].ea) =>
              Records[j].error \in {"NaN%", "Infinity%"}
         /\ (j > 1 /\ ~IsFinite(Trace[j - 1].x1)) =>
              /\ Trace[j].x0 = Trace[j - 1].x1
              /\ ~IsFinite(Trace[j].x1)
              /\ Records[j].x \in NonFiniteTexts

\* a successful 3-iteration standard run whose first iteration divides by
\* f'(x) == 0
C9_Witness ==
  /\ Succeeded
  /\ run.config.method = "standard"
  /\ Len(results) = 3
  /\ Trace[1].fpx = Num(0)
  /\ IsFinite(Trace[1].x0)
  /\ results[1].x_next \in NonFiniteTexts
  /\ results[3].x \in NonFiniteTexts
  /\ error = ""

\* C10: a call whose initial guess is not a finite number fails with an
\* error and produces no records.
C10_NonFiniteGuessFails ==
  (run.called /\ ~IsFinite(run.config.x0)) =>
    /\ run.locals.thrown
    /\ error # ""
    /\ results = <<>>

\* the true-root text is given and is not a number
InvalidTrueRoot ==
  run.config.trueRoot # "" /\ IsNaN(ParseFloat(run.config.trueRoot))

\* the iteration count is not a number: parseInt of the input's text was NaN
InvalidIterations == IsNaN(run.config.iterations)

\* C11: when the text of the true root or of the iteration count is not a
\* valid number the call fails before any iteration is performed: the error
\* is set and no records are published.
C11_ParseErrorSurfaced ==
  (run.called /\ (InvalidTrueRoot \/ InvalidIterations)) =>
    /\ run.locals.thrown
    /\ run.locals.i = 0
    /\ error # ""
    /\ results = <<>>

\* C12: after a calculation, successful or failed, the displayed results hold
\* no record of an earlier calculation: every displayed record is one the
\* last call computed.
C12_ResultsReplaced ==
  run.called =>
    \A j \in 1 .. Len(results) :
      \E k \in 1 .. Len(Records) : results[j] = Records[k]

\* the run of the configuration c on its own: fresh locals, nothing before it
Alone(c) == Loop(c, Locals(c.x0))

\* C13: the outcome of a run (its records, or its failure and message) is a
\* function of its configuration alone, whatever calls, successful or failed,
\* came before it.
C13_Stateless ==
  run.called =>
    \A A \in {Alone(run.config)} :
      /\ run.locals = A
      /\ error = ErrorText(A)
      /\ ~run.locals.thrown => results = A.iterationResults

\* a successful 2-record run that came after a failed one
C13_Witness ==
  /\ Succeeded
  /\ run.previous = "failed"
  /\ Len(results) = 2
  /\ results = Alone(run.config).iterationResults

\* C14: a call, on success and on failure, leaves equation, initialGuess,
\* iterations, method and trueRoot as they were.
C14_InputsUnchanged ==
  [][run' # run =>
       /\ UNCHANGED <<equation, initialGuess, iterations, method, trueRoot>>
       /\ run'.config.equation = equation'
       /\ run'.config.x0 = ParseFloat(initialGuess')
       /\ run'.config.iterations = iterations'
       /\ run'.config.method = method'
       /\ run'.config.trueRoot = trueRoot']_vars

\* a failed call after a successful one, the form still what the call read
C14_Witness ==
  /\ run.called
  /\ run.locals.thrown
  /\ run.previous = "succeeded"
  /\ equation = run.config.equation
  /\ ParseFloat(initialGuess) = run.config.x0
  /\ iterations = run.config.iterations
  /\ method = run.config.method
  /\ trueRoot = run.config.trueRoot

\* a record carries the f''(x) field
HasFppx(r) == "fppx" \in DOMAIN r

\* C15: every record of a run carries the f''(x) field exactly when the
\* run's method is modified, and carries the formula label of that method.
C15_FppxIffModified ==
  run.called =>
    \A j \in 1 .. Len(Records) :
      /\ HasFppx(Records[j]) <=> (run.config.method = "modified")
      /\ HasFppx(Records[j]) => Records[j].fppx = ToFixed(Trace[j].fppx)
      /\ Records[j].formula = (IF run.config.method = "standard"
                               THEN StandardFormula
                               ELSE ModifiedFormula)

\* a successful 3-record modified run: every record with a finite f''(x)
C15_Witness ==
  /\ Succeeded
  /\ run.config.method = "modified"
  /\ Len(results) = 3
  /\ \A j \in 1 .. 3 :
       /\ HasFppx(results[j])
       /\ results[j].fppx \notin NonFiniteTexts
       /\ results[j].formula = ModifiedFormula

\* the calls made by the passes of the loop of the last call
CallsOf(name) ==
  {<<j, k>> \in (1 .. Len(run.locals.calls)) \X (1 .. 6) :
     /\ k <= Len(run.locals.calls[j])
     /\ run.locals.calls[j][k] = name}

\* C16: under the standard method no iteration evaluates f''(x), and a
\* standard run fails only when f or f' throws.
C16_StandardSkipsSecondDerivative ==
  (run.called /\ run.config.method = "standard") =>
    /\ CallsOf("fDoublePrime") = {}
    /\ run.locals.thrown =>
         \/ ~f(run.config.equation, run.locals.x0).ok
         \/ ~fPrime(run.config.equation, run.locals.x0).ok

\* C17: symbolic differentiation is never invoked inside the loop, and a
\* failure of differentiation comes before any iteration has been computed.
C17_DerivedOnce ==
  run.called =>
    /\ CallsOf("derivative") = {}
    /\ (run.locals.thrown /\ ~derivative(run.config.equation).ok) =>
         run.locals.i = 0

\* C19: once a call has returned loading is false, and the error is
\* non-empty exactly when the most recent call failed: then it is "Error: "
\* followed by the message of the throw.
C19_ErrorIffLastFailed ==
  /\ loading = FALSE
  /\ ~run.called => error = ""
  /\ run.called =>
       /\ (error # "") <=> run.locals.thrown
       /\ run.locals.thrown =>
            error = "Error: " \o FirstThrow(run.config.equation, run.locals.x0)

\* a successful call right after a failed one: the error is cleared
C19_Witness ==
  /\ Succeeded
  /\ run.previous = "failed"
  /\ error = ""
  /\ loading = FALSE

\* the table renders the f''(x) column
ShowsFppxColumn == Len(results) > 0 /\ method = "modified"

\* C20: the results table shows the f''(x) column exactly when the records
\* on display carry an f''(x) value.
C20_ColumnFollowsRecords ==
  Len(results) > 0 =>
    (ShowsFppxColumn <=> \A j \in 1 .. Len(results) : HasFppx(results[j]))

\* s is an initial part of t
IsPrefix(s, t) == Len(s) <= Len(t) /\ \A j \in 1 .. Len(s) : s[j] = t[j]

\* the call p has left its loop
LoopLeft(p) ==
  \/ invocations[p].locals.thrown
  \/ ~LoopCondition(invocations[p].locals.i, invocations[p].config.iterations)

\* C18: two calls in progress do not interfere: in every interleaving the
\* records of each call are, pass by pass, the records its configuration
\* gives when run alone, and what is published is the sequence of one call.
C18_NoInterference ==
  /\ \A p \in Invocations :
       invocations[p].pc # "idle" =>
         \A A \in {Alone(invocations[p].config)} :
           /\ IsPrefix(invocations[p].locals.iterationResults, A.iterationResults)
           /\ IsPrefix(invocations[p].locals.trace, A.trace)
           /\ LoopLeft(p) => invocations[p].locals = A
  /\ \/ results = <<>>
     \/ \E p \in Invocations :
          /\ invocations[p].pc = "done"
          /\ results = Alone(invocations[p].config).iterationResults

\* two calls with different configurations, both between their first and
\* second pass, each with its own first record
C18_Witness ==
  /\ invocations[1].pc = "loop"
  /\ invocations[2].pc = "loop"
  /\ invocations[1].config # invocations[2].config
  /\ invocations[1].locals.i = 1
  /\ invocations[2].locals.i = 1
  /\ Len(invocations[1].locals.iterationResults) = 1
  /\ Len(invocations[2].locals.iterationResults) = 1
  /\ invocations[1].locals.iterationResults
       # invocations[2].locals.iterationResults

====
